---------------------------- MODULE Spec2Model ----------------------------
(***************************************************************************)
(* BE-Alert XLSX -> CSV convertor (src/src/main.rs).                        *)
(*                                                                         *)
(* Text is modelled as a sequence of one-character strings, so that trim,  *)
(* the character filters and the prefix tests of the source are computed   *)
(* character by character.  A spreadsheet cell is a record tagged with the *)
(* calamine Data variant it holds.                                         *)
(***************************************************************************)
EXTENDS Integers, Sequences, FiniteSets, TLC

VARIABLES
    \* --- field transformers applied to one text (SpecText)
    text_in,          \* the &str handed to the transformer
    phone_out,        \* Some(normalize_be_phone(text_in)) once applied
    house_out,        \* Some(extract_house_number(text_in)) once applied
    house_again,      \* Some(extract_house_number(that result)) once applied
    \* --- one validation / conversion call (Spec)
    workbook,         \* what is stored at input_xlsx
    validate_res,     \* Some(result of validate_xlsx_columns)
    convert_res,      \* Some(result of convert_xlsx_to_csv)
    csv_file,         \* what is stored at output_csv
    stream_fault,     \* Some(the output stream operation that failed, 0 for none)
    \* --- the window and its callbacks (SpecGui)
    fs,               \* path -> file content
    input_file, output_file, status,
    import_checked, import_ok, export_checked, export_ok,
    last_convert      \* arguments and outcome of the latest convert call

textVars == <<text_in, phone_out, house_out, house_again>>
convVars == <<workbook, validate_res, convert_res, csv_file, stream_fault>>
guiVars  == <<fs, input_file, output_file, status, import_checked, import_ok,
              export_checked, export_ok, last_convert>>
vars     == <<textVars, convVars, guiVars>>

None    == <<>>
Some(x) == <<x>>

-----------------------------------------------------------------------------
(* Bounds of the model                                                     *)

MaxTextLen == 5     \* length of the enumerated transformer inputs
MaxRows    == 2     \* data rows of an enumerated workbook

-----------------------------------------------------------------------------
(* Characters and std string functions                                     *)

Digits     == {"0", "1", "2", "3", "4", "5", "6", "7", "8", "9"}
WhiteSpace == {" ", "\t"}

is_ascii_digit(c) == c \in Digits
is_whitespace(c)  == c \in WhiteSpace

RECURSIVE trim_start(_)
trim_start(s) ==
    IF s = <<>> THEN <<>>
    ELSE IF is_whitespace(Head(s)) THEN trim_start(Tail(s)) ELSE s

RECURSIVE trim_end(_)
trim_end(s) ==
    IF s = <<>> THEN <<>>
    ELSE IF is_whitespace(s[Len(s)]) THEN trim_end(SubSeq(s, 1, Len(s) - 1)) ELSE s

\* str::trim
trim(s) == trim_end(trim_start(s))

\* str::starts_with
starts_with(s, p) == Len(s) >= Len(p) /\ SubSeq(s, 1, Len(p)) = p

-----------------------------------------------------------------------------
(* Field transformers                                                      *)

\* The for loop of extract_house_number over the characters still to read.
RECURSIVE house_loop(_, _)
house_loop(chars, digits) ==
    IF chars = <<>> THEN digits
    ELSE IF is_ascii_digit(Head(chars))
         THEN house_loop(Tail(chars), Append(digits, Head(chars)))
         ELSE digits

\* A loop that skips a non-digit instead of leaving.
RECURSIVE house_loop_continue(_, _)
house_loop_continue(chars, digits) ==
    IF chars = <<>> THEN digits
    ELSE IF is_ascii_digit(Head(chars))
         THEN house_loop_continue(Tail(chars), Append(digits, Head(chars)))
         ELSE house_loop_continue(Tail(chars), digits)

extract_house_number_continue(input) == house_loop_continue(trim(input), <<>>)

extract_house_number(input) == house_loop(trim(input), <<>>)

Prefix0032 == <<"0", "0", "3", "2">>
PlusThreeTwo == <<"+", "3", "2">>

phone_keep(c) == is_ascii_digit(c) \/ c = "+"

\* The "+32" prefix sliced off one character short (&s[2..]).
normalize_be_phone_slice2(input) ==
    LET s == SelectSeq(trim(input), phone_keep)
    IN  IF s = <<>> THEN <<>>
        ELSE IF starts_with(s, PlusThreeTwo) THEN Prefix0032 \o SubSeq(s, 3, Len(s))
        ELSE IF starts_with(s, <<"0">>) THEN Prefix0032 \o Tail(s)
        ELSE IF starts_with(s, <<"4">>) THEN Prefix0032 \o s
        ELSE s

normalize_be_phone(input) ==
    LET s == SelectSeq(trim(input), phone_keep)
    IN  IF s = <<>> THEN <<>>
        ELSE IF starts_with(s, PlusThreeTwo) THEN Prefix0032 \o SubSeq(s, 4, Len(s))
        ELSE IF starts_with(s, <<"0">>) THEN Prefix0032 \o Tail(s)
        ELSE IF starts_with(s, <<"4">>) THEN Prefix0032 \o s
        ELSE s

-----------------------------------------------------------------------------
(* Cells                                                                   *)

StringCell(s)  == [kind |-> "String", s |-> s]
FloatCell(u, t) == [kind |-> "Float", units |-> u, tenths |-> t]   \* u + t/10, u >= 0
IntCell(i)     == [kind |-> "Int", i |-> i]
BoolCell(b)    == [kind |-> "Bool", b |-> b]
EmptyCell      == [kind |-> "Empty"]
DateTimeCell   == [kind |-> "DateTime"]     \* one of the variants under `_ =>`

DigitChar(d) ==
    CASE d = 0 -> "0" [] d = 1 -> "1" [] d = 2 -> "2" [] d = 3 -> "3" [] d = 4 -> "4"
      [] d = 5 -> "5" [] d = 6 -> "6" [] d = 7 -> "7" [] d = 8 -> "8" [] d = 9 -> "9"

RECURSIVE nat_to_string(_)
nat_to_string(n) ==
    IF n < 10 THEN <<DigitChar(n)>>
    ELSE Append(nat_to_string(n \div 10), DigitChar(n % 10))

\* i64::to_string
int_to_string(i) == IF i < 0 THEN <<"-">> \o nat_to_string(0 - i) ELSE nat_to_string(i)

\* f64::to_string of u + t/10 with t # 0
float_to_string(u, t) == nat_to_string(u) \o <<".", DigitChar(t)>>

cell_to_string(cell) ==
    CASE cell.kind = "String" -> cell.s
      [] cell.kind = "Float"  -> IF cell.tenths = 0 THEN int_to_string(cell.units)
                                 ELSE float_to_string(cell.units, cell.tenths)
      [] cell.kind = "Int"    -> int_to_string(cell.i)
      [] cell.kind = "Bool"   -> IF cell.b THEN <<"t", "r", "u", "e">>
                                 ELSE <<"f", "a", "l", "s", "e">>
      [] cell.kind = "Empty"  -> <<>>
      [] OTHER                -> <<>>

-----------------------------------------------------------------------------
(* Column index: a map from header name to zero-based position            *)

Voornaam     == <<"V", "o", "o", "r", "n", "a", "a", "m">>
Naam         == <<"N", "a", "a", "m">>
Straat       == <<"S", "t", "r", "a", "a", "t">>
Huisnummer   == <<"H", "u", "i", "s", "n", "u", "m", "m", "e", "r">>
MobielNummer == <<"M", "o", "b", "i", "e", "l", " ", "n", "u", "m", "m", "e", "r">>
EMailadres   == <<"E", "-", "m", "a", "i", "l", "a", "d", "r", "e", "s">>

REQUIRED_COLUMNS == <<Voornaam, Naam, Straat, Huisnummer, MobielNummer, EMailadres>>

EmptyMap == [n \in {} |-> 0]

\* An insert that keeps the entry already present.
insert_keep_first(cols, name, i) ==
    [n \in DOMAIN cols \cup {name} |-> IF n \in DOMAIN cols THEN cols[n] ELSE i]

\* HashMap::insert
insert(cols, name, i) ==
    [n \in DOMAIN cols \cup {name} |-> IF n = name THEN i ELSE cols[n]]

\* The header loop of validate_xlsx_columns, from position i on.
RECURSIVE validate_header_loop(_, _, _)
validate_header_loop(header, i, cols) ==
    IF i >= Len(header) THEN cols
    ELSE LET name == trim(cell_to_string(header[i + 1]))
         IN  validate_header_loop(header, i + 1,
                 IF name # <<>> THEN insert(cols, name, i) ELSE cols)

\* The header loop of convert_xlsx_to_csv, from position i on.
RECURSIVE convert_header_loop(_, _, _)
convert_header_loop(header, i, cols) ==
    IF i >= Len(header) THEN cols
    ELSE LET name == trim(cell_to_string(header[i + 1]))
         IN  convert_header_loop(header, i + 1,
                 IF name # <<>> THEN insert(cols, name, i) ELSE cols)

\* A loop that keeps going and so reports the last name that is no key.
RECURSIVE required_loop_last(_, _)
required_loop_last(cols, k) ==
    IF k > Len(REQUIRED_COLUMNS) THEN None
    ELSE LET later == required_loop_last(cols, k + 1)
         IN  IF later # None THEN later
             ELSE IF REQUIRED_COLUMNS[k] \notin DOMAIN cols THEN Some(REQUIRED_COLUMNS[k])
             ELSE None

\* The loop over REQUIRED_COLUMNS: Some(first name that is no key), or None.
RECURSIVE required_loop(_, _)
required_loop(cols, k) ==
    IF k > Len(REQUIRED_COLUMNS) THEN None
    ELSE IF REQUIRED_COLUMNS[k] \notin DOMAIN cols THEN Some(REQUIRED_COLUMNS[k])
    ELSE required_loop(cols, k + 1)

-----------------------------------------------------------------------------
(* Results                                                                 *)

Ok           == [ok |-> TRUE,  err |-> "",   name |-> <<>>]
Err(e)       == [ok |-> FALSE, err |-> e,    name |-> <<>>]
MissingColumnError(n) == [ok |-> FALSE, err |-> "Missing required XLSX column", name |-> n]

OpenError    == Err("open_workbook")
NoSheetError == Err("No sheet found in XLSX")
SheetError   == Err("worksheet_range_at")
EmptyHeaderError == Err("Empty sheet (no header row)")
IOError      == Err("csv")

-----------------------------------------------------------------------------
(* Files                                                                   *)

Absent        == [kind |-> "absent"]
Unreadable    == [kind |-> "unreadable"]    \* no XLSX container
NoSheetBook   == [kind |-> "nosheet"]       \* a workbook without worksheets
BadSheetBook  == [kind |-> "badsheet"]      \* first worksheet does not decode
SheetBook(rs) == [kind |-> "sheet", rows |-> rs]   \* used range of the first sheet
CsvFile(recs) == [kind |-> "csv", records |-> recs]

\* What open_workbook + worksheet_range_at(0) make of a file.
opens_as(file) ==
    IF file.kind \in {"nosheet", "badsheet", "sheet"} THEN file ELSE Unreadable

validate_xlsx_columns(file) ==
    LET wb == opens_as(file)
    IN  IF wb.kind = "unreadable" THEN OpenError
        ELSE IF wb.kind = "nosheet" THEN NoSheetError
        ELSE IF wb.kind = "badsheet" THEN SheetError
        ELSE IF wb.rows = <<>> THEN EmptyHeaderError
        ELSE LET cols    == validate_header_loop(Head(wb.rows), 0, EmptyMap)
                 missing == required_loop(cols, 1)
             IN  IF missing # None THEN MissingColumnError(missing[1]) ELSE Ok

-----------------------------------------------------------------------------
(* Row mapping                                                             *)

\* cols.get(name).and_then(|&i| row.get(i)): Some(cell) or None
row_cell(cols, row, name) ==
    IF name \notin DOMAIN cols THEN None
    ELSE IF cols[name] < Len(row) THEN Some(row[cols[name] + 1])
    ELSE None

\* A lookup that reads one column too far to the left.
get_off_by_one(cols, row, name) ==
    LET cell == IF name \notin DOMAIN cols THEN None
                ELSE IF cols[name] >= 1 /\ cols[name] - 1 < Len(row)
                     THEN Some(row[cols[name]])
                ELSE None
    IN  trim(IF cell = None THEN <<>> ELSE cell_to_string(cell[1]))

get(cols, row, name) ==
    LET cell == row_cell(cols, row, name)
    IN  trim(IF cell = None THEN <<>> ELSE cell_to_string(cell[1]))

CSV_HEADER == <<
    <<"T", "e", "l", "/", "R", "e", "f", ".">>,
    <<"C", "i", "v", "i", "l", "i", "t", "é">>,
    <<"N", "a", "a", "m">>,
    <<"V", "o", "o", "r", "n", "a", "a", "m">>,
    <<"A", "d", "r", "e", "s", " ", "i", "n", "c", "l", " ", "h", "u", "i", "s", "n", "u", "m", "m", "e", "r">>,
    <<"B", "i", "j", "k", "o", "m", "e", "n", "d", " ", "a", "d", "r", "e", "s">>,
    <<"P", "o", "s", "t", "c", "o", "d", "e">>,
    <<"G", "e", "m", "e", "e", "n", "t", "e">>,
    <<"G", "e", "b", "o", "o", "r", "t", "e", "d", "a", "t", "u", "m">>,
    <<"E", "m", "a", "i", "l">>,
    <<"F", "A", "X">>,
    <<"F", "A", "X", "2">>,
    <<"F", "A", "X", "3">>,
    <<"V", "e", "r", "d", "i", "e", "p", "i", "n", "g">>,
    <<"A", "a", "n", "t", "a", "l", " ", "i", "n", "w", "o", "n", "e", "r", "s">>,
    <<"T", "e", "l", "e", "f", "o", "o", "n", " ", "2">>,
    <<"T", "e", "l", "e", "f", "o", "o", "n", " ", "3">>,
    <<"T", "e", "l", "e", "f", "o", "o", "n", " ", "4">>,
    <<"T", "e", "l", "e", "f", "o", "o", "n", " ", "5">>,
    <<"T", "e", "l", "e", "f", "o", "o", "n", "e", " ", "6">>,
    <<"T", "e", "l", "e", "f", "o", "o", "n", " ", "7">>,
    <<"S", "M", "S">>,
    <<"S", "M", "S", " ", "2">>,
    <<"S", "M", "S", " ", "3">>,
    <<"P", "a", "g", "e", "r">>,
    <<"Z", "o", "n", "e", " ", "l", "i", "b", "r", "e", " ", "1">>,
    <<"Z", "o", "n", "e", " ", "l", "i", "b", "r", "e", " ", "2">>,
    <<"Z", "o", "n", "e", " ", "l", "i", "b", "r", "e", " ", "3">>,
    <<"T", "a", "a", "l">>,
    <<"L", "a", "n", "d">>,
    <<"R", "o", "d", "e", " ", "l", "i", "j", "s", "t">>,
    <<"T", "y", "p", "e", " ", "C", "o", "n", "t", "a", "c", "t">>,
    <<"G", "P", "S", " ", "c", "o", "ö", "r", "d", "i", "n", "a", "t", "e", "n">>
>>

fixed_postcode     == <<"3", "5", "7", "0">>
fixed_gemeente     == <<"A", "l", "k", "e", "n">>
fixed_taal         == <<"N", "L">>
fixed_land         == <<"B", "E">>
fixed_zwarte_lijst == <<"0">>
fixed_type_contact == <<"P">>

\* The address without the final trim.
adres_incl_untrimmed(straat, huisnr_clean) == straat \o <<" ">> \o huisnr_clean

\* format!("{} {}", straat, huisnr_clean).trim()
adres_incl(straat, huisnr_clean) == trim(straat \o <<" ">> \o huisnr_clean)

\* The body of `for row in rows`: the record handed to write_record.
data_record(cols, row) ==
    LET xlsx_voornaam == get(cols, row, Voornaam)
        xlsx_naam     == get(cols, row, Naam)
        straat        == get(cols, row, Straat)
        huisnr_raw    == get(cols, row, Huisnummer)
        huisnr_clean  == extract_house_number(huisnr_raw)
        email         == get(cols, row, EMailadres)
        mobiel_raw    == get(cols, row, MobielNummer)
        tel_ref       == normalize_be_phone(mobiel_raw)
        csv_voornaam  == xlsx_voornaam
        csv_naam      == xlsx_naam
    IN  << tel_ref,                            \* Tel/Ref.
           <<>>,                               \* Civilité
           csv_naam,                           \* Naam
           csv_voornaam,                       \* Voornaam
           adres_incl(straat, huisnr_clean),   \* Adres incl huisnummer
           <<>>,                               \* Bijkomend adres
           fixed_postcode,                     \* Postcode
           fixed_gemeente,                     \* Gemeente
           <<>>,                               \* Geboortedatum
           email,                              \* Email
           <<>>, <<>>, <<>>,                   \* FAX, FAX2, FAX3
           <<>>, <<>>,                         \* Verdieping, Aantal inwoners
           <<>>, <<>>, <<>>, <<>>, <<>>, <<>>, \* Telefoon 2 .. Telefoon 7
           <<>>, <<>>, <<>>,                   \* SMS, SMS 2, SMS 3
           <<>>,                               \* Pager
           <<>>, <<>>, <<>>,                   \* Zone libre 1 .. 3
           fixed_taal,                         \* Taal
           fixed_land,                         \* Land
           fixed_zwarte_lijst,                 \* Rode lijst
           fixed_type_contact,                 \* Type Contact
           <<>> >>                             \* GPS coördinaten

-----------------------------------------------------------------------------
(* Conversion                                                              *)
(*                                                                         *)
(* io_fail numbers the operation on the output stream that fails: 1 is     *)
(* from_path, 2 the header's write_record, 2 + k the k-th row's            *)
(* write_record, and the one after the last row is flush; 0 is no failure. *)
(* A failed run leaves the records written before the failure.             *)

\* A row loop that passes over the rows whose cells are all blank.
RECURSIVE row_loop_skip_blank(_, _, _, _)
row_loop_skip_blank(cols, rows, written, io_fail) ==
    IF rows = <<>> THEN [failed |-> FALSE, written |-> written]
    ELSE IF \A k \in 1..Len(Head(rows)) : cell_to_string(Head(rows)[k]) = <<>>
         THEN row_loop_skip_blank(cols, Tail(rows), written, io_fail)
    ELSE IF io_fail = Len(written) + 2 THEN [failed |-> TRUE, written |-> written]
    ELSE row_loop_skip_blank(cols, Tail(rows),
                             Append(written, data_record(cols, Head(rows))), io_fail)

\* `for row in rows { ... writer.write_record(..)?; }` over the rows still to read.
RECURSIVE row_loop(_, _, _, _)
row_loop(cols, rows, written, io_fail) ==
    IF rows = <<>> THEN [failed |-> FALSE, written |-> written]
    ELSE IF io_fail = Len(written) + 2 THEN [failed |-> TRUE, written |-> written]
    ELSE row_loop(cols, Tail(rows),
                  Append(written, data_record(cols, Head(rows))), io_fail)

\* [res, file]: the result and what output_csv holds afterwards (old: before).
convert_xlsx_to_csv(file, old, io_fail) ==
    LET wb == opens_as(file)
    IN  IF wb.kind = "unreadable" THEN [res |-> OpenError, file |-> old]
        ELSE IF wb.kind = "nosheet" THEN [res |-> NoSheetError, file |-> old]
        ELSE IF wb.kind = "badsheet" THEN [res |-> SheetError, file |-> old]
        ELSE IF wb.rows = <<>> THEN [res |-> EmptyHeaderError, file |-> old]
        ELSE LET cols    == convert_header_loop(Head(wb.rows), 0, EmptyMap)
                 missing == required_loop(cols, 1)
             IN  IF missing # None
                 THEN [res |-> MissingColumnError(missing[1]), file |-> old]
                 ELSE IF io_fail = 1 THEN [res |-> IOError, file |-> old]
                 ELSE IF io_fail = 2 THEN [res |-> IOError, file |-> CsvFile(<<>>)]
                 ELSE LET loop == row_loop(cols, Tail(wb.rows), <<CSV_HEADER>>, io_fail)
                      IN  IF loop.failed \/ io_fail = Len(loop.written) + 2
                          THEN [res |-> IOError, file |-> CsvFile(loop.written)]
                          ELSE [res |-> Ok, file |-> CsvFile(loop.written)]

-----------------------------------------------------------------------------
(* Sample texts                                                            *)

Jan              == <<"J", "a", "n">>
Peeters          == <<"P", "e", "e", "t", "e", "r", "s">>
Dorpsstraat      == <<"D", "o", "r", "p", "s", "s", "t", "r", "a", "a", "t">>
Dorpsstraat12    == <<"D", "o", "r", "p", "s", "s", "t", "r", "a", "a", "t", " ", "1", "2">>
TwaalfBus3       == <<"1", "2", " ", "B", "u", "s", " ", "3">>
Gsm0470          == <<"0", "4", "7", "0", " ", "1", "2", " ", "3", "4", " ", "5", "6">>
JanMail          == <<"j", "a", "n", "@", "e", "x", "a", "m", "p", "l", "e", ".", "c", "o", "m">>
Tel0032470123456 == <<"0", "0", "3", "2", "4", "7", "0", "1", "2", "3", "4", "5", "6">>
Onbekend         == <<"O", "n", "b", "e", "k", "e", "n", "d">>
PlusGsm          == <<"+", "3", "2", " ", "4", "7", "0", "-", "1", "2", ".", "3", "4", ".", "5", "6">>
Plus32470123456  == <<"+", "3", "2", "4", "7", "0", "1", "2", "3", "4", "5", "6">>
Nul470123456     == <<"0", "4", "7", "0", "1", "2", "3", "4", "5", "6">>
Vier70123456     == <<"4", "7", "0", "1", "2", "3", "4", "5", "6">>
T32470123456     == <<"3", "2", "4", "7", "0", "1", "2", "3", "4", "5", "6">>
T11A             == <<"1", "1", "A">>
A12              == <<"A", "1", "2">>
Sp7              == <<" ", " ", "7">>
PadNaam          == <<" ", "N", "a", "a", "m", " ">>
Extra            == <<"E", "x", "t", "r", "a">>
Blank2           == <<" ", " ">>
AnPad            == <<" ", "A", "n", " ">>
Smet             == <<"S", "m", "e", "t">>
KerkwegPad       == <<" ", "K", "e", "r", "k", "w", "e", "g", " ", " ">>
Els              == <<"E", "l", "s">>
Piet             == <<"P", "i", "e", "t">>
Maes             == <<"M", "a", "e", "s">>

-----------------------------------------------------------------------------
(* SpecText: the two field transformers on enumerated texts                *)

TextAlphabet == {"+", "0", "2", "3", "4", " ", "\t", "A"}

BoundedTexts == UNION {[1..n -> TextAlphabet] : n \in 0..MaxTextLen}

TextExamples == {Plus32470123456, Nul470123456, Vier70123456, T32470123456, PlusGsm,
                 Gsm0470, T11A, TwaalfBus3, A12, Sp7, Onbekend}

TextInputs == BoundedTexts \cup TextExamples

ConvIdle ==
    /\ workbook = Absent /\ validate_res = None /\ convert_res = None
    /\ csv_file = Absent /\ stream_fault = None

GuiIdle ==
    /\ fs = EmptyMap /\ input_file = <<>> /\ output_file = <<>> /\ status = <<>>
    /\ import_checked = FALSE /\ import_ok = FALSE
    /\ export_checked = FALSE /\ export_ok = FALSE
    /\ last_convert = None

TextIdle ==
    /\ text_in = <<>> /\ phone_out = None /\ house_out = None /\ house_again = None

InitText ==
    /\ text_in \in TextInputs
    /\ phone_out = None /\ house_out = None /\ house_again = None
    /\ ConvIdle /\ GuiIdle

NormalizePhone ==
    /\ phone_out = None
    /\ phone_out' = Some(normalize_be_phone(text_in))
    /\ UNCHANGED <<text_in, house_out, house_again, convVars, guiVars>>

ExtractHouseNumber ==
    /\ house_out = None
    /\ house_out' = Some(extract_house_number(text_in))
    /\ UNCHANGED <<text_in, phone_out, house_again, convVars, guiVars>>

ExtractHouseNumberAgain ==
    /\ house_out # None /\ house_again = None
    /\ house_again' = Some(extract_house_number(house_out[1]))
    /\ UNCHANGED <<text_in, phone_out, house_out, convVars, guiVars>>

NextText == NormalizePhone \/ ExtractHouseNumber \/ ExtractHouseNumberAgain

SpecText == InitText /\ [][NextText]_vars

-----------------------------------------------------------------------------
(* Spec: one validation and one conversion of an enumerated workbook       *)

\* Two arrangements of the required columns.
HeaderOrders == {
    <<Voornaam, Naam, Straat, Huisnummer, MobielNummer, EMailadres>>,
    <<Naam, Voornaam, Huisnummer, Straat, EMailadres, MobielNummer>> }

\* The arrangement with the names outside `keep` left blank.
Masked(order, keep) ==
    [i \in 1..Len(order) |-> IF i \in keep THEN StringCell(order[i]) ELSE EmptyCell]

AllSix == 1..Len(REQUIRED_COLUMNS)

TailCells == {StringCell(Extra), StringCell(Naam), StringCell(PadNaam),
              StringCell(Blank2), EmptyCell, FloatCell(1, 0)}
HeadCells == {StringCell(Voornaam), EmptyCell}

\* Headers in which every required name occurs.
CompleteHeaders ==
    {Masked(o, AllSix) : o \in HeaderOrders}
    \cup {Masked(o, AllSix) \o <<c>> : o \in HeaderOrders, c \in TailCells}
    \cup {<<c>> \o Masked(o, AllSix) : o \in HeaderOrders, c \in HeadCells}
    \cup {Masked(o, AllSix \ {k}) \o <<StringCell(trim(o[k]) \o <<" ">>)>> :
              o \in HeaderOrders, k \in AllSix}

\* Headers that lack at least one required name.
LackingHeaders ==
    {Masked(o, keep) : o \in HeaderOrders, keep \in (SUBSET AllSix) \ {AllSix}}
    \cup {Masked(o, AllSix \ {k}) \o <<StringCell(Extra)>> :
              o \in HeaderOrders, k \in AllSix}

RowJan   == <<StringCell(Jan), StringCell(Peeters), StringCell(Dorpsstraat),
              StringCell(TwaalfBus3), StringCell(Gsm0470), StringCell(JanMail),
              StringCell(Maes)>>
RowPiet  == <<StringCell(Piet), StringCell(Maes), StringCell(Dorpsstraat),
              StringCell(Onbekend), StringCell(PlusGsm), EmptyCell>>
RowTyped == <<StringCell(AnPad), BoolCell(TRUE), StringCell(KerkwegPad),
              FloatCell(11, 5), IntCell(470123456), DateTimeCell, FloatCell(7, 0)>>
RowShort == <<StringCell(Els), StringCell(Smet), StringCell(Blank2), IntCell(12)>>
RowBlank == <<EmptyCell, EmptyCell, EmptyCell, EmptyCell, EmptyCell, EmptyCell>>

RowPool == {RowJan, RowPiet, RowTyped, RowShort, RowBlank}

RowSeqs(n) == UNION {[1..m -> RowPool] : m \in 0..n}

Workbooks ==
    {SheetBook(<<h>> \o rs) : h \in CompleteHeaders, rs \in RowSeqs(MaxRows)}
    \cup {SheetBook(<<h>> \o rs) : h \in LackingHeaders, rs \in RowSeqs(1)}
    \cup {SheetBook(<<>>), NoSheetBook, BadSheetBook, Unreadable, Absent,
          CsvFile(<<CSV_HEADER>>)}

Init ==
    /\ workbook \in Workbooks
    /\ validate_res = None /\ convert_res = None
    /\ csv_file = Absent /\ stream_fault = None
    /\ TextIdle /\ GuiIdle

Validate ==
    /\ validate_res = None
    /\ validate_res' = Some(validate_xlsx_columns(workbook))
    /\ UNCHANGED <<workbook, convert_res, csv_file, stream_fault, textVars, guiVars>>

Convert ==
    /\ convert_res = None
    /\ \E io_fail \in 0..(MaxRows + 3) :
          LET run == convert_xlsx_to_csv(workbook, csv_file, io_fail)
          IN  /\ convert_res' = Some(run.res)
              /\ csv_file' = run.file
              /\ stream_fault' = Some(IF run.res = IOError THEN io_fail ELSE 0)
    /\ UNCHANGED <<workbook, validate_res, textVars, guiVars>>

Next == Validate \/ Convert

Spec == Init /\ [][Next]_vars

-----------------------------------------------------------------------------
(* Claims about the field transformers (SpecText)                          *)

\* s without its first k characters
Drop(s, k) == [i \in 1..(Len(s) - k) |-> s[i + k]]

\* s with every character other than an ASCII digit or '+' removed
RECURSIVE DigitsAndPlus(_)
DigitsAndPlus(s) ==
    IF s = <<>> THEN <<>>
    ELSE IF Head(s) \in Digits \cup {"+"} THEN <<Head(s)>> \o DigitsAndPlus(Tail(s))
    ELSE DigitsAndPlus(Tail(s))

HasPlus32(f) == Len(f) >= 3 /\ f[1] = "+" /\ f[2] = "3" /\ f[3] = "2"

C5_LeadingDigits ==
    /\ house_out # None =>
           LET t == trim(text_in)
               r == house_out[1]
           IN  /\ Len(r) <= Len(t)
               /\ \A i \in 1..Len(r) : r[i] = t[i] /\ r[i] \in Digits
               /\ Len(r) < Len(t) => t[Len(r) + 1] \notin Digits
               /\ text_in = T11A => r = <<"1", "1">>
               /\ text_in = TwaalfBus3 => r = <<"1", "2">>
               /\ text_in = A12 => r = <<>>
               /\ text_in = Sp7 => r = <<"7">>
    /\ house_again # None => house_again = house_out

C5_Witness ==
    /\ text_in = TwaalfBus3
    /\ house_out = Some(<<"1", "2">>)
    /\ house_again = Some(<<"1", "2">>)

-----------------------------------------------------------------------------
(* Claims about validation and conversion (Spec)                           *)

ColTelRef      == <<"T", "e", "l", "/", "R", "e", "f", ".">>
ColNaam        == <<"N", "a", "a", "m">>
ColVoornaam    == <<"V", "o", "o", "r", "n", "a", "a", "m">>
ColAdres       == <<"A", "d", "r", "e", "s", " ", "i", "n", "c", "l", " ", "h", "u", "i", "s", "n", "u", "m", "m", "e", "r">>
ColPostcode    == <<"P", "o", "s", "t", "c", "o", "d", "e">>
ColGemeente    == <<"G", "e", "m", "e", "e", "n", "t", "e">>
ColEmail       == <<"E", "m", "a", "i", "l">>
ColTaal        == <<"T", "a", "a", "l">>
ColLand        == <<"L", "a", "n", "d">>
ColRodeLijst   == <<"R", "o", "d", "e", " ", "l", "i", "j", "s", "t">>
ColTypeContact == <<"T", "y", "p", "e", " ", "C", "o", "n", "t", "a", "c", "t">>

HasHeader == workbook.kind = "sheet" /\ workbook.rows # <<>>
HeaderRow == Head(workbook.rows)
DataRows  == Tail(workbook.rows)

\* The trimmed text of the i-th header cell (i from 1).
HeaderText(i) == trim(cell_to_string(HeaderRow[i]))

HeaderNames == {HeaderText(i) : i \in 1..Len(HeaderRow)} \ {<<>>}

\* The right-most column (from 1) whose trimmed header text is name.
LastColumn(name) ==
    CHOOSE i \in 1..Len(HeaderRow) :
        /\ HeaderText(i) = name
        /\ \A j \in 1..Len(HeaderRow) : HeaderText(j) = name => j <= i

\* The row has no cell, or a blank or unsupported cell, in the column of name.
NoValue(name, row) ==
    \/ LastColumn(name) > Len(row)
    \/ row[LastColumn(name)].kind \in {"Empty", "DateTime"}

\* The text of the row's cell in the column of name, as stored.
RawField(name, row) ==
    IF LastColumn(name) > Len(row) THEN <<>>
    ELSE cell_to_string(row[LastColumn(name)])

\* The trimmed value of input column name in the row.
InputField(name, row) == trim(RawField(name, row))

CompleteHeader == HasHeader /\ \A k \in AllSix : REQUIRED_COLUMNS[k] \in HeaderNames
LacksColumn    == HasHeader /\ \E k \in AllSix : REQUIRED_COLUMNS[k] \notin HeaderNames

\* The first required name, in the declared order, that the header lacks.
FirstAbsent ==
    REQUIRED_COLUMNS[CHOOSE k \in AllSix :
        /\ REQUIRED_COLUMNS[k] \notin HeaderNames
        /\ \A j \in 1..(k - 1) : REQUIRED_COLUMNS[j] \in HeaderNames]

Converted == convert_res = Some(Ok)

OutputColumn(name) == CHOOSE i \in 1..Len(CSV_HEADER) : CSV_HEADER[i] = name

\* The field under output column name of the record written for data row k.
OutputField(k, name) == csv_file.records[k + 1][OutputColumn(name)]

\* C1: for every data row, output column Voornaam holds the trimmed input Naam
\* and output column Naam holds the trimmed input Voornaam.
C1_NameSwap ==
    Converted =>
        \A k \in 1..Len(DataRows) :
            /\ OutputField(k, ColVoornaam) = InputField(Naam, DataRows[k])
            /\ OutputField(k, ColNaam) = InputField(Voornaam, DataRows[k])

JanRecord == <<
    Tel0032470123456, <<>>, Peeters, Jan, Dorpsstraat12, <<>>,
    <<"3", "5", "7", "0">>, <<"A", "l", "k", "e", "n">>, <<>>, JanMail,
    <<>>, <<>>, <<>>, <<>>, <<>>, <<>>, <<>>, <<>>, <<>>,
    <<>>, <<>>, <<>>, <<>>, <<>>, <<>>, <<>>, <<>>, <<>>,
    <<"N", "L">>, <<"B", "E">>, <<"0">>, <<"P">>, <<>> >>

IsJanWorkbook ==
    /\ CompleteHeader
    /\ Len(DataRows) = 1
    /\ RawField(Voornaam, DataRows[1]) = Jan
    /\ RawField(Naam, DataRows[1]) = Peeters
    /\ RawField(Straat, DataRows[1]) = Dorpsstraat
    /\ RawField(Huisnummer, DataRows[1]) = TwaalfBus3
    /\ RawField(MobielNummer, DataRows[1]) = Gsm0470
    /\ RawField(EMailadres, DataRows[1]) = JanMail

C3_MissingColumn ==
    LacksColumn =>
        /\ validate_res # None => validate_res[1] = MissingColumnError(FirstAbsent)
        /\ convert_res # None =>
               /\ convert_res[1] = MissingColumnError(FirstAbsent)
               /\ csv_file = Absent

C3_Witness ==
    /\ HasHeader
    /\ HeaderNames = {Voornaam, Naam, Straat, Huisnummer, EMailadres}
    /\ Len(DataRows) = 1
    /\ validate_res = Some(MissingColumnError(MobielNummer))
    /\ convert_res = Some(MissingColumnError(MobielNummer))
    /\ csv_file = Absent

ConstantColumns == {ColPostcode, ColGemeente, ColTaal, ColLand, ColRodeLijst, ColTypeContact}
DerivedColumns  == {ColTelRef, ColNaam, ColVoornaam, ColAdres, ColEmail}

\* The output columns that are neither constant nor derived from the row.
OtherColumns ==
    {i \in 1..Len(CSV_HEADER) : CSV_HEADER[i] \notin ConstantColumns \cup DerivedColumns}

\* The stream of a successful conversion: the header, then one 33-field record
\* per data row in row order, the constants under their names, and the
\* columns of OtherColumns, n_other of them, empty.
StreamShape(n_other) ==
    Converted =>
        /\ csv_file.kind = "csv"
        /\ Len(csv_file.records) = Len(DataRows) + 1
        /\ csv_file.records[1] = CSV_HEADER
        /\ Len(CSV_HEADER) = 33
        /\ \A k \in 1..Len(DataRows) :
               /\ Len(csv_file.records[k + 1]) = 33
               /\ OutputField(k, ColTelRef)
                      = normalize_be_phone(InputField(MobielNummer, DataRows[k]))
               /\ OutputField(k, ColEmail) = InputField(EMailadres, DataRows[k])
               /\ OutputField(k, ColPostcode) = <<"3", "5", "7", "0">>
               /\ OutputField(k, ColGemeente) = <<"A", "l", "k", "e", "n">>
               /\ OutputField(k, ColTaal) = <<"N", "L">>
               /\ OutputField(k, ColLand) = <<"B", "E">>
               /\ OutputField(k, ColRodeLijst) = <<"0">>
               /\ OutputField(k, ColTypeContact) = <<"P">>
               /\ \A i \in OtherColumns : csv_file.records[k + 1][i] = <<>>
               /\ Cardinality(OtherColumns) = n_other

C7_Address ==
    Converted =>
        \A k \in 1..Len(DataRows) :
            LET street == InputField(Straat, DataRows[k])
                house  == extract_house_number(InputField(Huisnummer, DataRows[k]))
                adres  == OutputField(k, ColAdres)
            IN  /\ adres = trim(street \o <<" ">> \o house)
                /\ adres # <<>> => adres[1] # " " /\ adres[Len(adres)] # " "
                /\ house = <<>> => adres = street

C7_Witness ==
    /\ Converted
    /\ HeaderRow = Masked(REQUIRED_COLUMNS, AllSix)
    /\ DataRows = <<RowPiet>>
    /\ OutputField(1, ColAdres) = Dorpsstraat

\* C8: the column index has a key for exactly the distinct non-empty trimmed
\* header texts, each mapped to its right-most position, in validation and in
\* conversion alike; the name fields are read from those columns.
C8_ColumnIndex ==
    HasHeader =>
        LET vcols == validate_header_loop(HeaderRow, 0, EmptyMap)
            ccols == convert_header_loop(HeaderRow, 0, EmptyMap)
        IN  /\ DOMAIN vcols = HeaderNames
            /\ DOMAIN ccols = HeaderNames
            /\ \A n \in HeaderNames :
                   /\ vcols[n] = LastColumn(n) - 1
                   /\ ccols[n] = LastColumn(n) - 1
            /\ Converted =>
                   \A k \in 1..Len(DataRows) :
                       {OutputField(k, ColNaam), OutputField(k, ColVoornaam)}
                           = {InputField(Naam, DataRows[k]),
                              InputField(Voornaam, DataRows[k])}

C8_Witness ==
    /\ Converted
    /\ HeaderRow = Masked(REQUIRED_COLUMNS, AllSix) \o <<StringCell(PadNaam)>>
    /\ DataRows = <<RowJan>>
    /\ Maes \in {OutputField(1, ColNaam), OutputField(1, ColVoornaam)}
    /\ Peeters \notin {OutputField(1, ColNaam), OutputField(1, ColVoornaam)}

\* C9: once the required columns are there, a conversion ends Ok or with an
\* IOError of the output stream, Ok when the stream never fails; every row
\* gets a record, and a required field without a value in the row gives an
\* empty phone, e-mail, house number and name.
C9_TotalRows ==
    CompleteHeader /\ convert_res # None =>
        /\ convert_res[1] \in {Ok, IOError}
        /\ stream_fault = Some(0) => Converted
        /\ Converted =>
               /\ Len(csv_file.records) = Len(DataRows) + 1
               /\ \A k \in 1..Len(DataRows) :
                      LET row == DataRows[k]
                      IN  /\ NoValue(MobielNummer, row) => OutputField(k, ColTelRef) = <<>>
                          /\ NoValue(EMailadres, row) => OutputField(k, ColEmail) = <<>>
                          /\ NoValue(Huisnummer, row) =>
                                 OutputField(k, ColAdres) = InputField(Straat, row)
                          /\ NoValue(Voornaam, row) \/ NoValue(Naam, row) =>
                                 <<>> \in {OutputField(k, ColNaam), OutputField(k, ColVoornaam)}
                          /\ NoValue(Voornaam, row) /\ NoValue(Naam, row) =>
                                 {OutputField(k, ColNaam), OutputField(k, ColVoornaam)} = {<<>>}

C9_Witness ==
    /\ Converted
    /\ HeaderRow = Masked(REQUIRED_COLUMNS, AllSix)
    /\ DataRows = <<RowShort, RowBlank>>
    /\ Len(csv_file.records) = 3
    /\ OutputField(1, ColTelRef) = <<>>
    /\ OutputField(1, ColAdres) = <<"1", "2">>

-----------------------------------------------------------------------------
(* SpecGui: the window's three callbacks over a small file system          *)

PathA   == <<"/", "a", ".", "x", "l", "s", "x">>
PathB   == <<"/", "b", ".", "x", "l", "s", "x">>
PathCsv == <<"/", "a", ".", "c", "s", "v">>

Paths     == {PathA, PathB, PathCsv}
SavePaths == {PathCsv, PathA}       \* the save dialog may name an existing file

JanBook     == SheetBook(<<Masked(REQUIRED_COLUMNS, AllSix), RowJan>>)
TypedBook   == SheetBook(<<Masked(REQUIRED_COLUMNS, AllSix) \o <<StringCell(Extra)>>,
                           RowTyped, RowBlank>>)
LackingBook == SheetBook(<<Masked(REQUIRED_COLUMNS, AllSix \ {5}), RowPiet>>)

GuiFiles == {JanBook, TypedBook, LackingBook, Unreadable}

Status(msg)         == [msg |-> msg, err |-> Ok]
StatusError(msg, e) == [msg |-> msg, err |-> e]

InitGui ==
    /\ fs \in {[p \in Paths |-> IF p = PathA THEN a ELSE IF p = PathB THEN b ELSE Absent] :
                   a \in GuiFiles, b \in GuiFiles}
    /\ input_file = <<>> /\ output_file = <<>>
    /\ status \in {Status(""), Status("Ready.")}
    /\ import_checked = FALSE /\ import_ok = FALSE
    /\ export_checked = FALSE /\ export_ok = FALSE
    /\ last_convert = None
    /\ TextIdle /\ ConvIdle

\* An import callback that leaves the export fields as they are.
on_import_clicked_keeps_export(pick) ==
    IF pick = None
    THEN UNCHANGED guiVars
    ELSE LET path_str == pick[1]
             checked  == validate_xlsx_columns(fs[path_str])
         IN  /\ input_file' = path_str
             /\ import_checked' = TRUE
             /\ import_ok' = checked.ok
             /\ status' = IF checked.ok THEN Status("XLSX selected and columns OK.")
                          ELSE StatusError("XLSX error: {}", checked)
             /\ UNCHANGED <<fs, last_convert, output_file, export_checked, export_ok>>

\* The import callback; pick is what FileDialog::pick_file returned.
on_import_clicked(pick) ==
    IF pick = None
    THEN UNCHANGED guiVars
    ELSE LET path_str == pick[1]
             checked  == validate_xlsx_columns(fs[path_str])
         IN  /\ input_file' = path_str
             /\ output_file' = <<>>
             /\ export_checked' = FALSE
             /\ export_ok' = FALSE
             /\ import_checked' = TRUE
             /\ import_ok' = checked.ok
             /\ status' = IF checked.ok THEN Status("XLSX selected and columns OK.")
                          ELSE StatusError("XLSX error: {}", checked)
             /\ UNCHANGED <<fs, last_convert>>

\* The export callback; out is what FileDialog::save_file returned and
\* io_fail the output stream operation that fails during the conversion.
on_export_clicked(out, io_fail) ==
    LET input == input_file
    IN  IF trim(input) = <<>>
        THEN /\ status' = Status("No XLSX selected.")
             /\ UNCHANGED <<fs, input_file, output_file, import_checked, import_ok,
                            export_checked, export_ok, last_convert>>
        ELSE IF out = None
        THEN UNCHANGED guiVars
        ELSE LET run == convert_xlsx_to_csv(fs[input], fs[out[1]], io_fail)
             IN  /\ fs' = [fs EXCEPT ![out[1]] = run.file]
                 /\ last_convert' = Some([input |-> input, output |-> out[1],
                                          res |-> run.res])
                 /\ export_checked' = TRUE
                 /\ export_ok' = run.res.ok
                 /\ IF run.res.ok
                    THEN /\ output_file' = out[1]
                         /\ status' = Status("CSV saved.")
                    ELSE /\ output_file' = output_file
                         /\ status' = StatusError("Error: {}", run.res)
                 /\ UNCHANGED <<input_file, import_checked, import_ok>>

on_reset_clicked ==
    /\ input_file' = <<>>
    /\ output_file' = <<>>
    /\ status' = Status("Ready.")
    /\ import_checked' = FALSE
    /\ import_ok' = FALSE
    /\ export_checked' = FALSE
    /\ export_ok' = FALSE
    /\ UNCHANGED <<fs, last_convert>>

ImportClicked ==
    /\ \E pick \in {None} \cup {Some(p) : p \in {q \in Paths : fs[q] # Absent}} :
           on_import_clicked(pick)
    /\ UNCHANGED <<textVars, convVars>>

ExportClicked ==
    /\ \E out \in {None} \cup {Some(p) : p \in SavePaths} :
           \E io_fail \in 0..(MaxRows + 3) : on_export_clicked(out, io_fail)
    /\ UNCHANGED <<textVars, convVars>>

ResetClicked ==
    /\ on_reset_clicked
    /\ UNCHANGED <<textVars, convVars>>

NextGui == ImportClicked \/ ExportClicked \/ ResetClicked

SpecGui == InitGui /\ [][NextGui]_vars

-----------------------------------------------------------------------------
(* Claim about the window's status fields (SpecGui)                        *)

\* C10: export_ok implies export_checked and non-empty output_file and
\* input_file; import_ok implies import_checked and a non-empty input_file;
\* the export fields always speak of the latest conversion, which was one of
\* the input now selected; no conversion is ever started with an empty input.
C10_StatusFlags ==
    /\ export_ok => export_checked /\ output_file # <<>> /\ input_file # <<>>
    /\ import_ok => import_checked /\ input_file # <<>>
    /\ export_checked =>
           /\ last_convert # None
           /\ last_convert[1].input = input_file
           /\ export_ok = last_convert[1].res.ok
    /\ export_ok => last_convert[1].output = output_file
    /\ output_file # <<>> => export_checked
    /\ last_convert # None => trim(last_convert[1].input) # <<>>

C10_Witness ==
    /\ export_ok /\ import_ok
    /\ input_file = PathB /\ output_file = PathCsv
    /\ last_convert = Some([input |-> PathB, output |-> PathCsv, res |-> Ok])
    /\ fs[PathA] = CsvFile(<<CSV_HEADER, JanRecord>>)

=============================================================================
